---- MODULE Spec2Model ----
(***************************************************************************)
(* Model of dags/news_etl_dag.py: the four-task DAG                        *)
(*   extract_newsapi_task >> scrape_content_task >> ml_analysis_task       *)
(*   >> load_postgres_task                                                 *)
(* and the news_articles table the last task upserts into.                 *)
(*                                                                         *)
(* Python's None, JSON null and SQL NULL are the empty tuple; a present    *)
(* value v is the one-element tuple <<v>>.  An article is a record with    *)
(* one field per key the code reads with .get(); a key that is missing     *)
(* reads as None, exactly as dict.get does.                                *)
(***************************************************************************)
EXTENDS Integers, Sequences, FiniteSets, Bags, TLC

None == <<>>
Some(v) == <<v>>

\* Python truthiness of an optional string: None and "" are falsy.
Falsy(o) == o = None \/ o = Some("")

\* len(x or '')
LenOrEmpty(o) == IF Falsy(o) THEN 0 ELSE Len(o[1])

(***************************************************************************)
(* Bounds of the model.                                                    *)
(***************************************************************************)
\* Longest batch a DAG run of the load specification extracts.
MaxBatch == 2
\* Longest batch of the enrichment specification.
MaxEnrichBatch == 2
\* Longest batch of each of the two overlapping loads.
MaxConcBatch == 2
\* Rows without a url that the table may accumulate before runs stop.
MaxNullRows == 2

\* content[:100000] in analyze_articles
MaxNlpChars == 100000

Runs == {"A", "B"}

UrlX == "http://x"
UrlY == "http://y"

(***************************************************************************)
(* Articles as the NewsAPI returns them.  ver distinguishes two fetches of  *)
(* the same url whose fields all changed.                                  *)
(***************************************************************************)
RawArticle(url, ver, content, source) ==
    [title |-> Some("title-" \o ver), description |-> Some("desc-" \o ver),
     url |-> url, urlToImage |-> Some("img-" \o ver),
     publishedAt |-> Some("2024-01-0" \o ver), source |-> source,
     author |-> Some("author-" \o ver), content |-> content,
     sentiment_polarity |-> None, sentiment_subjectivity |-> None,
     named_entities |-> None]

SourceOf(ver) == Some([name |-> Some("source-" \o ver)])

Snippet == "Short."
SameLength == "Other."
LongParagraphs == <<"Apple hired Tim Cook", "in 2024.">>
LongText == "Apple hired Tim Cook in 2024."

\* Sequences over S of length 0..n
SeqUpTo(S, n) == UNION {[1..k -> S] : k \in 0..n}

(***************************************************************************)
(* Task 2: scrape_and_enrich_content.  A response is what the GET of one   *)
(* article's page does: it raises, or it returns the page's paragraphs.    *)
(***************************************************************************)
RequestExceptions == {"Timeout", "ConnectionError", "HTTPError"}
OtherExceptions == {"ParserError"}

Raises(kind) == [kind |-> kind, paragraphs |-> <<>>]
Page(paragraphs) == [kind |-> "ok", paragraphs |-> paragraphs]

RECURSIVE Join(_, _)
\* sep.join(parts)
Join(parts, sep) ==
    IF parts = <<>> THEN ""
    ELSE IF Len(parts) = 1 THEN parts[1]
    ELSE parts[1] \o sep \o Join(Tail(parts), sep)

\* A faulty variant: only `except requests.exceptions.RequestException`.
HandledRequestOnly(kind) == kind \in RequestExceptions

\* The two except clauses of the loop body.
Handled(kind) == kind \in RequestExceptions \/ kind \in OtherExceptions

\* A faulty variant: >= for > in the length test.
ShouldReplaceGeq(full_content, article) ==
    full_content # "" /\ Len(full_content) >= LenOrEmpty(article.content)

\* The test that guards article['content'] = full_content.
ShouldReplace(full_content, article) ==
    full_content # "" /\ Len(full_content) > LenOrEmpty(article.content)

\* The body of the try block: the exception it raises, if any, and the
\* article as the block left it.
TryScrape(article, resp) ==
    IF resp.kind # "ok"
    THEN [exc |-> Some(resp.kind), article |-> article]
    ELSE LET full_content == Join(resp.paragraphs, " ")
         IN  IF ShouldReplace(full_content, article)
             THEN [exc |-> None,
                   article |-> [article EXCEPT !.content = Some(full_content)]]
             ELSE [exc |-> None, article |-> article]

RECURSIVE EnrichLoop(_, _, _, _)
\* The for loop over articles from index i on, enriched_articles being acc.
\* responses[i] is what the GET for articles[i] does.
EnrichLoop(articles, responses, i, acc) ==
    IF i > Len(articles) THEN [raised |-> None, value |-> acc]
    ELSE LET article == articles[i]
         IN  IF Falsy(article.url)
             THEN EnrichLoop(articles, responses, i + 1, Append(acc, article))
             ELSE LET t == TryScrape(article, responses[i])
                  IN  IF t.exc # None /\ ~Handled(t.exc[1])
                      THEN [raised |-> t.exc, value |-> <<>>]
                      ELSE EnrichLoop(articles, responses, i + 1,
                                      Append(acc, t.article))

\* scrape_and_enrich_content, given what xcom_pull returned.
scrape_and_enrich_content(articles, responses) ==
    IF articles = <<>> THEN [raised |-> None, value |-> <<>>]
    ELSE EnrichLoop(articles, responses, 1, <<>>)

(***************************************************************************)
(* Task 3: analyze_articles.  TextBlob and the spaCy pipeline are fixed    *)
(* functions of the text; polarity and subjectivity are in hundredths.     *)
(***************************************************************************)
KeptLabels == {"PERSON", "ORG", "GPE", "PRODUCT"}

\* blob.sentiment.polarity
Polarity(content) == IF content = LongText THEN 35 ELSE 0

\* blob.sentiment.subjectivity
Subjectivity(content) == IF content = LongText THEN 60 ELSE 0

\* content[:100000]; no text of the model is longer.
Truncate(content) == IF Len(content) <= MaxNlpChars THEN content ELSE LongText

\* nlp(text).ents, in the model's order
DocEnts(text) ==
    IF text = LongText
    THEN << [text |-> "Apple", label |-> "ORG"],
            [text |-> "Tim Cook", label |-> "PERSON"],
            [text |-> "2024", label |-> "DATE"] >>
    ELSE <<>>

RECURSIVE FilterEnts(_)
\* [... for ent in doc.ents if ent.label_ in [...]]
FilterEnts(ents) ==
    IF ents = <<>> THEN <<>>
    ELSE IF ents[1].label \in KeptLabels
         THEN <<ents[1]>> \o FilterEnts(Tail(ents))
         ELSE FilterEnts(Tail(ents))

\* A faulty variant: an article without content gets neutral scores and no entities.
AnalyzeOneDefaults(article) ==
    IF Falsy(article.content)
    THEN [article EXCEPT !.sentiment_polarity = Some(0),
                         !.sentiment_subjectivity = Some(0),
                         !.named_entities = Some(<<>>)]
    ELSE [article EXCEPT
             !.sentiment_polarity = Some(Polarity(article.content[1])),
             !.sentiment_subjectivity = Some(Subjectivity(article.content[1])),
             !.named_entities = Some(FilterEnts(DocEnts(Truncate(article.content[1]))))]

\* The body of analyze_articles' loop.
AnalyzeOne(article) ==
    IF Falsy(article.content)
    THEN [article EXCEPT !.sentiment_polarity = None,
                         !.sentiment_subjectivity = None,
                         !.named_entities = None]
    ELSE [article EXCEPT
             !.sentiment_polarity = Some(Polarity(article.content[1])),
             !.sentiment_subjectivity = Some(Subjectivity(article.content[1])),
             !.named_entities = Some(FilterEnts(DocEnts(Truncate(article.content[1]))))]

\* article.get('title', 'No Title')[:50] raises TypeError when the title is
\* null; the line is reached only for an article with content.
AnalyzeRaises(article) == ~Falsy(article.content) /\ article.title = None

\* analyze_articles once the spaCy model has loaded, when no article raises.
analyze_articles(articles) ==
    IF articles = <<>> THEN <<>>
    ELSE [i \in 1..Len(articles) |-> AnalyzeOne(articles[i])]

(***************************************************************************)
(* Task 4: load_data_to_postgres, and PostgreSQL's execution of its SQL.   *)
(* The table is a bag of rows; url carries the unique index that           *)
(* ON CONFLICT (url) names, and NULL never conflicts with NULL.            *)
(***************************************************************************)
JsonObject(ent) ==
    "{\"text\": \"" \o ent.text \o "\", \"label\": \"" \o ent.label \o "\"}"

RECURSIVE JsonItems(_)
JsonItems(ents) ==
    IF ents = <<>> THEN ""
    ELSE IF Len(ents) = 1 THEN JsonObject(ents[1])
    ELSE JsonObject(ents[1]) \o ", " \o JsonItems(Tail(ents))

\* json.dumps of a list of {'text', 'label'} dicts
json_dumps(ents) == "[" \o JsonItems(ents) \o "]"

\* n.get('source', {}).get('name') raises AttributeError when source is null.
RecordRaises(n) == n.source = None

\* One tuple of `records`.
Record(n) ==
    [title |-> n.title, description |-> n.description, url |-> n.url,
     image_url |-> n.urlToImage, published_at |-> n.publishedAt,
     source_name |-> n.source[1].name, author |-> n.author,
     content |-> n.content, sentiment_polarity |-> n.sentiment_polarity,
     sentiment_subjectivity |-> n.sentiment_subjectivity,
     named_entities |-> IF n.named_entities # None
                        THEN Some(json_dumps(n.named_entities[1]))
                        ELSE None]

One(row) == SetToBag({row})

HasUrl(t, u) == \E row \in BagToSet(t) : row.url = u
RowOf(t, u) == CHOOSE row \in BagToSet(t) : row.url = u
NullRows(t) == BagCardinality([row \in {x \in BagToSet(t) : x.url = None} |-> t[row]])

\* A faulty variant: ON CONFLICT (url) DO NOTHING.
OnConflictDoNothing(old, excluded) == old

\* ON CONFLICT (url) DO UPDATE SET ... = EXCLUDED. ...
OnConflictUpdate(old, excluded) ==
    [old EXCEPT !.title = excluded.title,
                !.description = excluded.description,
                !.content = excluded.content,
                !.sentiment_polarity = excluded.sentiment_polarity,
                !.sentiment_subjectivity = excluded.sentiment_subjectivity,
                !.named_entities = excluded.named_entities]

\* A faulty variant: a plain INSERT into a table without the unique index.
ConflictsNever(t, rec) == FALSE

\* Whether the INSERT of rec meets a row with the same url.
Conflicts(t, rec) == rec.url # None /\ HasUrl(t, rec.url)

\* The row the statement leaves for rec.
Written(t, rec) ==
    IF Conflicts(t, rec) THEN OnConflictUpdate(RowOf(t, rec.url), rec) ELSE rec

\* The table after the statement has run for rec.
Upsert(t, rec) ==
    IF Conflicts(t, rec)
    THEN (t (-) One(RowOf(t, rec.url))) (+) One(Written(t, rec))
    ELSE t (+) One(rec)

\* What the transaction must restore if it rolls this statement back.
UndoEntry(t, rec) ==
    [url |-> rec.url,
     old |-> IF Conflicts(t, rec) THEN Some(RowOf(t, rec.url)) ELSE None,
     new |-> Written(t, rec)]

Revert(t, e) ==
    IF e.old = None THEN t (-) One(e.new)
    ELSE (t (-) One(e.new)) (+) One(e.old[1])

RECURSIVE RollbackLog(_, _)
RollbackLog(t, log) ==
    IF log = <<>> THEN t
    ELSE RollbackLog(Revert(t, log[Len(log)]), SubSeq(log, 1, Len(log) - 1))

\* A faulty variant: the except clause without conn.rollback().
RollbackOmitted(t, log) == t

\* conn.rollback()
Rollback(t, log) == RollbackLog(t, log)

\* A faulty variant: a connection in autocommit mode.
AutocommitOn == TRUE

\* hook.get_conn() returns a psycopg2 connection with autocommit off.
Autocommit == FALSE

RECURSIVE LoadAll(_, _)
\* The table after every record has been written, in order.
LoadAll(t, recs) ==
    IF recs = <<>> THEN t ELSE LoadAll(Upsert(t, recs[1]), Tail(recs))

DbErrors == {"deadlock detected", "connection lost"}

(***************************************************************************)
(* State.  Each DAG run r has its XComs, the position of its task, and the *)
(* load task's connection, cursor, records and transaction.                *)
(***************************************************************************)
VARIABLES
    table,      \* news_articles, uncommitted writes included
    xcom,       \* xcom[r][task_id]: the value the task returned
    responses,  \* responses[r][i]: what the i-th page request of run r did
    pc,         \* pc[r]: where run r stands
    conn,       \* conn[r]: "none", "open" or "closed"
    cursor,     \* cursor[r]: "none", "open" or "closed"
    records,    \* records[r]: the tuples handed to executemany
    idx,        \* idx[r]: how many of them executemany has written
    undo,       \* undo[r]: the open transaction's undo log
    dberr,      \* dberr[r]: the database error caught, if any
    result,     \* result[r]: how the load task ended
    pre,        \* pre[r]: the table when the load task started
    once        \* once[r]: the table after the batch was first committed

vars == <<table, xcom, responses, pc, conn, cursor, records, idx, undo,
          dberr, result, pre, once>>

loaderVars == <<conn, cursor, records, idx, undo, dberr, result, pre>>

NoXCom == [extract |-> <<>>, scrape |-> <<>>, ml |-> <<>>]
NoResult == [status |-> "none", exc |-> "", msg |-> "", committed |-> FALSE]
Returned(committed) ==
    [status |-> "returned", exc |-> "", msg |-> "", committed |-> committed]
Raised(exc, msg) ==
    [status |-> "raised", exc |-> exc, msg |-> msg, committed |-> FALSE]

NoRequest == [kind |-> "unrequested", paragraphs |-> <<>>]

\* The rows other open transactions have written and not yet committed
\* hold their row locks: a statement that meets one waits.
LockedByOther(r, u) ==
    u # None /\ \E q \in Runs \ {r} : \E i \in DOMAIN undo[q] : undo[q][i].url = u

(***************************************************************************)
(* Tasks 1 to 3, each run to completion.                                   *)
(***************************************************************************)
\* extract_data_from_newsapi returns data['articles'].
ExtractTask(r, pool, maxlen) ==
    /\ pc[r] = "extract"
    /\ \E articles \in SeqUpTo(pool, maxlen) :
          xcom' = [xcom EXCEPT ![r] = [NoXCom EXCEPT !.extract = articles]]
    /\ pc' = [pc EXCEPT ![r] = "scrape"]
    /\ UNCHANGED <<table, responses, once>>
    /\ UNCHANGED loaderVars

\* extract_data_from_newsapi raises: no key, a failed request, status not ok.
ExtractFails(r) ==
    /\ pc[r] = "extract"
    /\ pc' = [pc EXCEPT ![r] = "extract_failed"]
    /\ UNCHANGED <<table, xcom, responses, once>>
    /\ UNCHANGED loaderVars

\* scrape_and_enrich_content
ScrapeTask(r, resps) ==
    /\ pc[r] = "scrape"
    /\ LET articles == xcom[r].extract
       IN  \E rs \in [1..Len(articles) ->  resps \cup {NoRequest}] :
              /\ \A i \in 1..Len(articles) :
                    (rs[i] = NoRequest) <=> Falsy(articles[i].url)
              /\ LET out == scrape_and_enrich_content(articles, rs)
                 IN  /\ responses' = [responses EXCEPT ![r] = rs]
                     /\ xcom' = [xcom EXCEPT ![r].scrape = out.value]
                     /\ pc' = [pc EXCEPT ![r] =
                                 IF out.raised = None THEN "analyze"
                                 ELSE "scrape_failed"]
    /\ UNCHANGED <<table, once>>
    /\ UNCHANGED loaderVars

\* analyze_articles; spacy.load raises OSError when the model is missing,
\* and an exception in the loop leaves the function.
AnalyzeTask(r) ==
    /\ pc[r] = "analyze"
    /\ \E loaded \in BOOLEAN :
          IF \/ xcom[r].scrape = <<>>
             \/ loaded /\ \A i \in DOMAIN xcom[r].scrape :
                              ~AnalyzeRaises(xcom[r].scrape[i])
          THEN /\ xcom' = [xcom EXCEPT ![r].ml = analyze_articles(xcom[r].scrape)]
               /\ pc' = [pc EXCEPT ![r] = "load"]
          ELSE /\ pc' = [pc EXCEPT ![r] = "analyze_failed"]
               /\ UNCHANGED xcom
    /\ UNCHANGED <<table, responses, once>>
    /\ UNCHANGED loaderVars

(***************************************************************************)
(* Task 4, statement by statement.                                         *)
(***************************************************************************)
NullUrls(articles) == Cardinality({i \in DOMAIN articles : articles[i].url = None})

\* xcom_pull, the empty-batch return, hook.get_conn()
LoadStart(r) ==
    /\ pc[r] = "load"
    /\ NullRows(table) + NullUrls(xcom[r].ml) <= MaxNullRows
    /\ pre' = [pre EXCEPT ![r] = table]
    /\ IF xcom[r].ml = <<>>
       THEN /\ result' = [result EXCEPT ![r] = Returned(FALSE)]
            /\ pc' = [pc EXCEPT ![r] = "done"]
            /\ UNCHANGED conn
       ELSE /\ conn' = [conn EXCEPT ![r] = "open"]
            /\ pc' = [pc EXCEPT ![r] = "cursor"]
            /\ UNCHANGED result
    /\ UNCHANGED <<table, xcom, responses, cursor, records, idx, undo, dberr, once>>

\* cursor = conn.cursor(), outside the try statement
OpenCursor(r) ==
    /\ pc[r] = "cursor"
    /\ \E ok \in BOOLEAN :
          IF ok
          THEN /\ cursor' = [cursor EXCEPT ![r] = "open"]
               /\ pc' = [pc EXCEPT ![r] = "build"]
               /\ UNCHANGED result
          ELSE /\ result' = [result EXCEPT ![r] =
                                Raised("InterfaceError", "connection already closed")]
               /\ pc' = [pc EXCEPT ![r] = "done"]
               /\ UNCHANGED cursor
    /\ UNCHANGED <<table, xcom, responses, conn, records, idx, undo, dberr, pre, once>>

\* records = [...], outside the try statement
BuildRecords(r) ==
    /\ pc[r] = "build"
    /\ LET articles == xcom[r].ml
       IN  IF \E i \in DOMAIN articles : RecordRaises(articles[i])
           THEN /\ result' = [result EXCEPT ![r] =
                      Raised("AttributeError",
                             "'NoneType' object has no attribute 'get'")]
                /\ pc' = [pc EXCEPT ![r] = "done"]
                /\ UNCHANGED records
           ELSE /\ records' = [records EXCEPT ![r] =
                                  [i \in DOMAIN articles |-> Record(articles[i])]]
                /\ pc' = [pc EXCEPT ![r] = "execute"]
                /\ UNCHANGED result
    /\ UNCHANGED <<table, xcom, responses, conn, cursor, idx, undo, dberr, pre, once>>

\* cursor.executemany writes the next record.
ExecuteRow(r) ==
    /\ pc[r] = "execute"
    /\ idx[r] < Len(records[r])
    /\ LET rec == records[r][idx[r] + 1]
       IN  /\ ~LockedByOther(r, rec.url)
           /\ table' = Upsert(table, rec)
           /\ undo' = IF Autocommit THEN undo
                      ELSE [undo EXCEPT ![r] = Append(@, UndoEntry(table, rec))]
    /\ idx' = [idx EXCEPT ![r] = @ + 1]
    /\ UNCHANGED <<xcom, responses, pc, conn, cursor, records, dberr, result, pre, once>>

\* The statement, or the commit, raises a database error.
DbError(r) ==
    /\ pc[r] = "execute"
    /\ \E e \in DbErrors : dberr' = [dberr EXCEPT ![r] = Some(e)]
    /\ pc' = [pc EXCEPT ![r] = "except"]
    /\ UNCHANGED <<table, xcom, responses, conn, cursor, records, idx, undo, result,
                   pre, once>>

\* conn.commit()
Commit(r) ==
    /\ pc[r] = "execute"
    /\ idx[r] = Len(records[r])
    /\ undo' = [undo EXCEPT ![r] = <<>>]
    /\ result' = [result EXCEPT ![r] = Returned(TRUE)]
    /\ once' = [once EXCEPT ![r] = IF @ = None THEN Some(table) ELSE @]
    /\ pc' = [pc EXCEPT ![r] = "finally"]
    /\ UNCHANGED <<table, xcom, responses, conn, cursor, records, idx, dberr, pre>>

\* except Exception as e: conn.rollback(); raise AirflowException(...)
Except(r) ==
    /\ pc[r] = "except"
    /\ table' = Rollback(table, undo[r])
    /\ undo' = [undo EXCEPT ![r] = <<>>]
    /\ result' = [result EXCEPT ![r] =
                     Raised("AirflowException", "Database error: " \o dberr[r][1])]
    /\ pc' = [pc EXCEPT ![r] = "finally"]
    /\ UNCHANGED <<xcom, responses, conn, cursor, records, idx, dberr, pre, once>>

\* finally: cursor.close(); conn.close()
Finally(r) ==
    /\ pc[r] = "finally"
    /\ cursor' = [cursor EXCEPT ![r] = "closed"]
    /\ conn' = [conn EXCEPT ![r] = "closed"]
    /\ pc' = [pc EXCEPT ![r] = "done"]
    /\ UNCHANGED <<table, xcom, responses, records, idx, undo, dberr, result, pre, once>>

Fresh(f, r, v) == [f EXCEPT ![r] = v]

\* The load task runs again on the same XCom (a retry, or a cleared task).
RetryLoad(r) ==
    /\ pc[r] = "done"
    /\ pc' = [pc EXCEPT ![r] = "load"]
    /\ conn' = Fresh(conn, r, "none")
    /\ cursor' = Fresh(cursor, r, "none")
    /\ records' = Fresh(records, r, <<>>)
    /\ idx' = Fresh(idx, r, 0)
    /\ dberr' = Fresh(dberr, r, None)
    /\ result' = Fresh(result, r, NoResult)
    /\ UNCHANGED <<table, xcom, responses, undo, pre, once>>

\* The scheduler starts the next DAG run.
NextDagRun(r) ==
    /\ pc[r] \in {"done", "extract_failed", "scrape_failed", "analyze_failed"}
    /\ pc' = [pc EXCEPT ![r] = "extract"]
    /\ xcom' = Fresh(xcom, r, NoXCom)
    /\ responses' = Fresh(responses, r, <<>>)
    /\ conn' = Fresh(conn, r, "none")
    /\ cursor' = Fresh(cursor, r, "none")
    /\ records' = Fresh(records, r, <<>>)
    /\ idx' = Fresh(idx, r, 0)
    /\ dberr' = Fresh(dberr, r, None)
    /\ result' = Fresh(result, r, NoResult)
    /\ pre' = Fresh(pre, r, EmptyBag)
    /\ once' = Fresh(once, r, None)
    /\ UNCHANGED <<table, undo>>

Loader(r) ==
    \/ LoadStart(r) \/ OpenCursor(r) \/ BuildRecords(r) \/ ExecuteRow(r)
    \/ DbError(r) \/ Commit(r) \/ Except(r) \/ Finally(r)

(***************************************************************************)
(* Spec: DAG runs one after the other (the scheduler keeps runs from       *)
(* overlapping), each load possibly run again on its batch.                *)
(***************************************************************************)
LoadPool ==
    { RawArticle(Some(UrlX), "1", Some(Snippet), SourceOf("1")),
      RawArticle(Some(UrlX), "2", None, SourceOf("2")),
      RawArticle(Some(UrlY), "1", Some(LongText), SourceOf("1")),
      RawArticle(None, "1", Some(Snippet), SourceOf("1")),
      RawArticle(None, "2", Some(Snippet), None) }

LoadResponses == {Raises("Timeout"), Page(LongParagraphs)}

Blank(v) == [r \in Runs |-> v]

Init ==
    /\ table = EmptyBag
    /\ xcom = Blank(NoXCom)
    /\ responses = Blank(<<>>)
    /\ pc = [r \in Runs |-> IF r = "A" THEN "extract" ELSE "idle"]
    /\ conn = Blank("none")
    /\ cursor = Blank("none")
    /\ records = Blank(<<>>)
    /\ idx = Blank(0)
    /\ undo = Blank(<<>>)
    /\ dberr = Blank(None)
    /\ result = Blank(NoResult)
    /\ pre = Blank(EmptyBag)
    /\ once = Blank(None)

Next ==
    \E r \in Runs :
        \/ ExtractTask(r, LoadPool, MaxBatch)
        \/ ExtractFails(r)
        \/ ScrapeTask(r, LoadResponses)
        \/ AnalyzeTask(r)
        \/ Loader(r)
        \/ RetryLoad(r)
        \/ NextDagRun(r)

Spec == Init /\ [][Next]_vars

(***************************************************************************)
(* SpecEnrich: one DAG run up to the load, over every batch of EnrichPool  *)
(* and every way the page requests can end.                                *)
(***************************************************************************)
EnrichPool ==
    { RawArticle(u, "1", c, SourceOf("1")) :
        u \in {None, Some(UrlX)}, c \in {None, Some(""), Some(Snippet)} }
    \cup { RawArticle(Some(""), "2", Some(Snippet), SourceOf("2")),
           [RawArticle(Some(UrlX), "2", Some(Snippet), SourceOf("2"))
               EXCEPT !.title = None] }

EnrichResponses ==
    { Raises(k) : k \in RequestExceptions \cup OtherExceptions }
    \cup { Page(<<>>), Page(<<"Hi.">>), Page(<<SameLength>>), Page(LongParagraphs) }

NextEnrich ==
    \E r \in Runs :
        \/ ExtractTask(r, EnrichPool, MaxEnrichBatch)
        \/ ScrapeTask(r, EnrichResponses)
        \/ AnalyzeTask(r)

SpecEnrich == Init /\ [][NextEnrich]_vars

(***************************************************************************)
(* SpecConc: two DAG runs overlap (nothing in the DAG prevents it).  Both  *)
(* load tasks have pulled their batch and opened their connection; their   *)
(* statements interleave in every order.                                   *)
(***************************************************************************)
ConcPool(ver) ==
    { RawArticle(Some(u), ver, Some(Snippet), SourceOf(ver)) : u \in {UrlX, UrlY} }

TimedOut(articles) == [i \in DOMAIN articles |-> Raises("Timeout")]

\* The XComs of a run whose page requests all timed out.
XComOf(articles) ==
    [extract |-> articles,
     scrape |-> scrape_and_enrich_content(articles, TimedOut(articles)).value,
     ml |-> analyze_articles(
                scrape_and_enrich_content(articles, TimedOut(articles)).value)]

RecordsOf(articles) == [i \in DOMAIN articles |-> Record(articles[i])]

\* The table an earlier run left: both urls, fetched as version 0.
Preloaded ==
    LoadAll(EmptyBag,
            RecordsOf(XComOf(<< RawArticle(Some(UrlX), "0", Some(Snippet), SourceOf("0")),
                                RawArticle(Some(UrlY), "0", Some(Snippet), SourceOf("0")) >>).ml))

InitConc ==
    /\ table \in {EmptyBag, Preloaded}
    /\ \E a \in SeqUpTo(ConcPool("1"), MaxConcBatch) \ {<<>>} :
       \E b \in SeqUpTo(ConcPool("2"), MaxConcBatch) \ {<<>>} :
          /\ xcom = [r \in Runs |-> IF r = "A" THEN XComOf(a) ELSE XComOf(b)]
          /\ responses = [r \in Runs |-> IF r = "A" THEN TimedOut(a) ELSE TimedOut(b)]
    /\ pc = Blank("cursor")
    /\ conn = Blank("open")
    /\ cursor = Blank("none")
    /\ records = Blank(<<>>)
    /\ idx = Blank(0)
    /\ undo = Blank(<<>>)
    /\ dberr = Blank(None)
    /\ result = Blank(NoResult)
    /\ pre = Blank(table)
    /\ once = Blank(None)

NextConc ==
    \E r \in Runs :
        \/ OpenCursor(r) \/ BuildRecords(r) \/ ExecuteRow(r) \/ DbError(r)
        \/ Commit(r) \/ Except(r) \/ Finally(r)

SpecConc == InitConc /\ [][NextConc]_vars

(***************************************************************************)
(* Properties of the enricher and the analyzer.                            *)
(***************************************************************************)
ScrapeDone(r) == pc[r] \in {"analyze", "analyze_failed", "load"}
RequestFailed(resp) == resp.kind \in RequestExceptions \cup OtherExceptions

\* responses with every failed request replaced by a page with `paragraphs`
Healed(rs, paragraphs) ==
    [i \in DOMAIN rs |-> IF RequestFailed(rs[i]) THEN Page(paragraphs) ELSE rs[i]]

\* C7: scrape_and_enrich_content never raises, whatever subset of the page
\* requests fails and however; its output has the length and order of its
\* input; an article whose request failed comes out equal to its input in
\* every field; and every other article comes out as it does when the failed
\* requests succeed instead.
C7_EnricherIsolation ==
    \A r \in Runs :
        /\ pc[r] # "scrape_failed"
        /\ ScrapeDone(r) =>
              LET inp == xcom[r].extract
                  out == xcom[r].scrape
                  rs == responses[r]
              IN  /\ Len(out) = Len(inp)
                  /\ \A i \in DOMAIN inp :
                        /\ out[i].url = inp[i].url
                        /\ out[i].title = inp[i].title
                        /\ RequestFailed(rs[i]) => out[i] = inp[i]
                        /\ ~RequestFailed(rs[i]) =>
                              \A p \in {<<>>, LongParagraphs} :
                                 out[i] = scrape_and_enrich_content(
                                              inp, Healed(rs, p)).value[i]

\* C7's case: a request that raised an unexpected exception, followed by an
\* article that was enriched.
C7_Witness ==
    \E r \in Runs :
        /\ ScrapeDone(r)
        /\ \E i, j \in DOMAIN xcom[r].extract :
              /\ i < j
              /\ responses[r][i].kind \in OtherExceptions
              /\ xcom[r].scrape[i] = xcom[r].extract[i]
              /\ xcom[r].scrape[j].content = Some(LongText)
              /\ xcom[r].extract[j].content = Some(Snippet)

\* C8: after scrape_and_enrich_content every article's content is its input
\* content or the scraped text, the scraped text only when that is non-empty
\* and strictly longer than the input content (absent counting as length 0);
\* so the content never gets shorter, nothing else changes, and an article
\* without a url comes out unchanged.
C8_ContentNeverShrinks ==
    \A r \in Runs :
        ScrapeDone(r) =>
            LET inp == xcom[r].extract
                out == xcom[r].scrape
                rs == responses[r]
            IN  \A i \in DOMAIN inp :
                   /\ i \in DOMAIN out
                   /\ [out[i] EXCEPT !.content = inp[i].content] = inp[i]
                   /\ \/ out[i].content = inp[i].content
                      \/ /\ rs[i].kind = "ok"
                         /\ out[i].content = Some(Join(rs[i].paragraphs, " "))
                         /\ out[i].content # Some("")
                         /\ Len(out[i].content[1]) > LenOrEmpty(inp[i].content)
                   /\ LenOrEmpty(out[i].content) >= LenOrEmpty(inp[i].content)
                   /\ Falsy(inp[i].url) => out[i] = inp[i]

\* C8's case: one article whose content was replaced by a longer page, one
\* whose page was exactly as long as its content and was kept, one without
\* content that took a short page.
C8_Witness ==
    \E r \in Runs :
        /\ ScrapeDone(r)
        /\ \E i \in DOMAIN xcom[r].extract :
              /\ xcom[r].extract[i].content = Some(Snippet)
              /\ xcom[r].scrape[i].content = Some(LongText)
        /\ \E i \in DOMAIN xcom[r].extract :
              \/ /\ responses[r][i] = Page(<<SameLength>>)
                 /\ xcom[r].scrape[i].content = Some(Snippet)
              \/ /\ responses[r][i] = Page(<<"Hi.">>)
                 /\ xcom[r].extract[i].content = None
                 /\ xcom[r].scrape[i].content = Some("Hi.")

AllAbsent(a) ==
    /\ a.sentiment_polarity = None
    /\ a.sentiment_subjectivity = None
    /\ a.named_entities = None

AllPresent(a) ==
    /\ a.sentiment_polarity # None
    /\ a.sentiment_subjectivity # None
    /\ a.named_entities # None

\* C10: in the batch analyze_articles returns, an article's
\* sentiment_polarity, sentiment_subjectivity and named_entities are all
\* None exactly when its content is None or empty, and all present
\* otherwise; no article without content carries a zero or an empty list.
C10_AnalyzerAllOrNone ==
    \A r \in Runs :
        pc[r] = "load" =>
            /\ Len(xcom[r].ml) = Len(xcom[r].scrape)
            /\ \A i \in DOMAIN xcom[r].ml :
                  LET a == xcom[r].ml[i]
                  IN  /\ a.content = xcom[r].scrape[i].content
                      /\ AllAbsent(a) \/ AllPresent(a)
                      /\ AllAbsent(a) <=> Falsy(a.content)

\* C10's case: a batch with an article without content, one with empty
\* content, and one whose text is neutral and has no entities.
C10_Witness ==
    \E r \in Runs :
        /\ pc[r] = "load"
        /\ \E i, j \in DOMAIN xcom[r].ml :
              /\ xcom[r].ml[i].content \in {None, Some("")}
              /\ xcom[r].ml[i].named_entities = None
              /\ xcom[r].ml[j].content = Some(Snippet)
              /\ xcom[r].ml[j].sentiment_polarity = Some(0)
              /\ xcom[r].ml[j].named_entities = Some(<<>>)

(***************************************************************************)
(* Properties of the loader.                                               *)
(***************************************************************************)
RowsFor(u) == {row \in BagToSet(table) : row.url = u}

\* C1: once a batch has been loaded and committed, loading the same batch
\* again leaves news_articles with the same rows and the same column values.
C1_LoaderIdempotent ==
    \A r \in Runs :
        (pc[r] = "done" /\ once[r] # None) => table = once[r][1]

\* C2: news_articles never holds two rows with the same url, whatever
\* batches were loaded, a url repeated within a batch and re-runs included.
C2_OneRowPerUrl ==
    \A row \in BagToSet(table) :
        row.url # None =>
            /\ table[row] = 1
            /\ \A other \in BagToSet(table) : other.url = row.url => other = row

\* C2's case: a committed load of a batch that names one url twice, with
\* different values, into a table that already held that url and another.
C2_Witness ==
    \E r \in Runs :
        /\ pc[r] = "done"
        /\ result[r].committed
        /\ Len(records[r]) = 2
        /\ records[r][1].url = Some(UrlX)
        /\ records[r][2].url = Some(UrlX)
        /\ records[r][1] # records[r][2]
        /\ HasUrl(pre[r], Some(UrlX))
        /\ HasUrl(table, Some(UrlY))
        /\ Cardinality(RowsFor(Some(UrlX))) = 1

\* C3: when a statement of the batch (or the commit) raises a database
\* error, the load rolls back, news_articles is what it was before the load,
\* rows written before the failing one included, and the task raises an
\* AirflowException whose message carries the database's; a load commits only
\* when every record was written and nothing raised.
C3_LoaderAtomic ==
    \A r \in Runs :
        /\ (pc[r] \in {"finally", "done"} /\ dberr[r] # None) =>
              /\ table = pre[r]
              /\ ~result[r].committed
              /\ result[r] = Raised("AirflowException",
                                    "Database error: " \o dberr[r][1])
        /\ result[r].committed =>
              /\ dberr[r] = None
              /\ idx[r] = Len(records[r])

\* C3's case: the error came after a row had been inserted and another
\* updated, and the table is back to what it was.
C3_Witness ==
    \E r \in Runs :
        /\ pc[r] = "done"
        /\ dberr[r] = Some("connection lost")
        /\ idx[r] = 2
        /\ records[r][1].url # records[r][2].url
        /\ HasUrl(pre[r], records[r][1].url)
        /\ ~HasUrl(pre[r], records[r][2].url)
        /\ table = pre[r]

\* C4: a record written for a url that already has a row overwrites that
\* row's title, description, content, sentiment_polarity,
\* sentiment_subjectivity and named_entities and leaves its image_url,
\* published_at, source_name and author as they were; a record for a new url
\* is stored as it is; either way the url then has exactly one row.
C4_GenuineUpsert ==
    \A r \in Runs :
        (pc[r] = "execute" /\ idx[r] >= 1 /\ records[r][idx[r]].url # None) =>
            LET rec == records[r][idx[r]]
                e == undo[r][idx[r]]
            IN  /\ Cardinality(RowsFor(rec.url)) = 1
                /\ \A row \in RowsFor(rec.url) :
                      /\ table[row] = 1
                      /\ row.title = rec.title
                      /\ row.description = rec.description
                      /\ row.content = rec.content
                      /\ row.sentiment_polarity = rec.sentiment_polarity
                      /\ row.sentiment_subjectivity = rec.sentiment_subjectivity
                      /\ row.named_entities = rec.named_entities
                      /\ e.old = None => row = rec
                      /\ e.old # None =>
                            /\ row.image_url = e.old[1].image_url
                            /\ row.published_at = e.old[1].published_at
                            /\ row.source_name = e.old[1].source_name
                            /\ row.author = e.old[1].author

\* C4's case: http://x, stored by an earlier load, is loaded again with a
\* changed title; the committed table holds one row for it, with the new
\* title and the first load's image_url.
C4_Witness ==
    \E r \in Runs :
        /\ pc[r] = "done"
        /\ result[r].committed
        /\ Len(records[r]) = 1
        /\ records[r][1].url = Some(UrlX)
        /\ records[r][1].title = Some("title-2")
        /\ \E old \in BagToSet(pre[r]) :
              /\ old.url = Some(UrlX)
              /\ old.title = Some("title-1")
              /\ old.named_entities # None
        /\ \E row \in RowsFor(Some(UrlX)) :
              /\ RowsFor(Some(UrlX)) = {row}
              /\ row.title = Some("title-2")
              /\ row.named_entities = None
              /\ row.image_url = Some("img-1")

\* C5: no record without a url is handed to executemany, and news_articles
\* holds no row without a url.
C5_NoUrlNoLoad ==
    /\ \A r \in Runs : \A i \in DOMAIN records[r] : records[r][i].url # None
    /\ NullRows(table) = 0

\* C6: when load_data_to_postgres has opened a connection and is over,
\* returned or raised, the connection is closed and so is the cursor.
C6_ResourcesReleased ==
    \A r \in Runs :
        (pc[r] = "done" /\ conn[r] # "none") =>
            /\ conn[r] = "closed"
            /\ cursor[r] # "open"

(***************************************************************************)
(* Properties of overlapping loads.                                        *)
(***************************************************************************)
\* The table as a new transaction would see it: the open ones undone.
CommittedView == RollbackLog(RollbackLog(table, undo["A"]), undo["B"])

CommittedRuns == {r \in Runs : result[r].committed}

SerialOutcomes(t0) ==
    LET a == RecordsOf(xcom["A"].ml)
        b == RecordsOf(xcom["B"].ml)
    IN  IF CommittedRuns = {} THEN {t0}
        ELSE IF CommittedRuns = {"A"} THEN {LoadAll(t0, a)}
        ELSE IF CommittedRuns = {"B"} THEN {LoadAll(t0, b)}
        ELSE {LoadAll(LoadAll(t0, a), b), LoadAll(LoadAll(t0, b), a)}

Urls(recs) == {recs[i].url : i \in DOMAIN recs}

\* C9: with two loads interleaving their statements in any order, the
\* committed content of news_articles is at every moment what the loads that
\* have committed leave when run one after the other in some order; and once
\* both have committed, the urls both wrote all carry the same load's values.
C9_ConcurrentLoadsSerial ==
    /\ CommittedView \in SerialOutcomes(pre["A"])
    /\ CommittedRuns = Runs =>
          \A u, v \in Urls(RecordsOf(xcom["A"].ml)) \cap Urls(RecordsOf(xcom["B"].ml)) :
             \A ru \in RowsFor(u) : \A rv \in RowsFor(v) : ru.title = rv.title

\* C9's case: both transactions are open and have written; A, which wrote
\* http://x, now waits for the lock B holds on http://y, which B wrote
\* with other values.
C9_Witness ==
    /\ pc["A"] = "execute" /\ pc["B"] = "execute"
    /\ idx["A"] = 1 /\ idx["B"] >= 1
    /\ undo["A"][1].url = Some(UrlX)
    /\ undo["B"][1].url = Some(UrlY)
    /\ Len(records["A"]) >= 2
    /\ records["A"][2].url = Some(UrlY)
    /\ LockedByOther("A", records["A"][2].url)
    /\ Some(UrlX) \in Urls(records["B"])

====
